---- MODULE Spec2Model ----
(***************************************************************************)
(* NomadEvents: the event participation state machine (lib/local-events.ts *)
(* over the events, event_participants and messages tables and their       *)
(* row-level-security policies), the friendship graph (lib/friends.ts over *)
(* the friendships table) and the direct messages kept on the device       *)
(* (lib/local-dms.ts over two AsyncStorage items).                         *)
(*                                                                         *)
(* The relational store is modelled by what the schema under supabase/     *)
(* declares: primary keys, unique constraints, foreign keys with ON DELETE *)
(* CASCADE and the row-level policies.  Every statement the client sends   *)
(* is one atomic step of the store; a client function that awaits several  *)
(* statements is several steps, and other calls interleave between them.   *)
(***************************************************************************)
EXTENDS Integers, Sequences, FiniteSets, Bags, TLC

\* ---------------------------------------------------------------- bounds
MaxEvents == 1          \* events ever created (ids are never reused)
MaxJoinCalls == 2       \* joinEvent calls between their two statements
MaxMessages == 1        \* message rows ever inserted (ids are never reused)
MaxFriendships == 2     \* friendship rows ever inserted (ids are never reused)
MaxFriendCalls == 2     \* friends.ts calls between getCurrentUserId and their statement
MaxSends == 2           \* sendDMMessage calls ever made
MaxOpens == 1           \* getOrCreateDMChat calls between their read and their write
MaxPick == 2            \* entries of a reply pool that Math.random() picks among
MaxClock == 1           \* milliseconds the clock advances
MaxDays == 1            \* days that pass
MaxLocCalls == 1        \* updateMyLocation calls in flight

Users == {"u1", "u2"}
EventIds == 1 .. MaxEvents
FriendshipIds == 1 .. MaxFriendships
Titles == {"Coffee Walk", ""}     \* createEvent takes any string as title

ParticipantStatus == {"pending", "approved", "rejected"}

VARIABLES
    events,         \* table public.events: set of rows (id is the primary key)
    nextEventId,    \* gen_random_uuid(): the next fresh event id
    participants,   \* table public.event_participants: bag of rows
    statusColumn,   \* does event_participants have the status column (migration run)?
    joinCalls,      \* joinEvent calls that have read the event, not yet upserted
    messages,       \* table public.messages: set of rows (id is the primary key)
    nextMessageId,  \* gen_random_uuid(): the next fresh message id
    friendships,    \* table public.friendships: set of rows (id is the primary key)
    nextFriendshipId, \* gen_random_uuid(): the next fresh friendship id
    friendCalls,    \* friends.ts calls that know the session user, statement not yet sent
    resolutions,    \* per friendship id: the statuses written by the updates that matched it
    dmChats,        \* AsyncStorage item nomadtable.dms.v1: the DMChat records
    dmMessages,     \* AsyncStorage item nomadtable.dm_messages.v1: the DMMessage array
    dmProcs,        \* local-dms.ts calls and timer callbacks at an await, with what they hold
    nextSendId,     \* number of the next sendDMMessage call
    replied,        \* per sendDMMessage call: the reply messages written for it
    returned,       \* per sendDMMessage call: the message it returned
    clock,          \* Date.now()
    screen,         \* DMChatScreen: the messages state, the onSend calls resumed
    profiles,       \* table profiles: is_ghost, latitude, longitude, last_seen per user
    ghostMode,      \* per user: the ghost mode the user has last chosen
    locCalls,       \* updateMyLocation calls between getProfile and the update
    nearby,         \* the last getNearbyUsers call and its result
    ret             \* what the last completed step returned to its caller

vars == <<events, nextEventId, participants, statusColumn, joinCalls, messages,
          nextMessageId,
          friendships, nextFriendshipId, friendCalls, resolutions,
          dmChats, dmMessages, dmProcs, nextSendId, replied, returned, clock, screen, profiles,
          ghostMode, locCalls, nearby, ret>>

\* the state of the map feed
presence == <<profiles, ghostMode, locCalls, nearby>>

\* the state of local-dms.ts
dm == <<dmChats, dmMessages, dmProcs, nextSendId, replied, returned, clock, screen>>

\* what the operations of local-events.ts never touch
notEvents == <<statusColumn, friendships, nextFriendshipId, friendCalls, resolutions,
               dm, presence>>

\* what the operations of friends.ts never touch
notFriends == <<events, nextEventId, participants, statusColumn, joinCalls,
                messages, nextMessageId, dm, presence>>

\* what the operations of local-dms.ts never touch
notDM == <<events, nextEventId, participants, statusColumn, joinCalls, messages,
           nextMessageId, friendships, nextFriendshipId, friendCalls, resolutions,
           screen, presence, ret>>

\* what only the passing of time changes
time == <<clock>>

\* the chat of an event
chat == <<messages, nextMessageId>>

\* the operation that ran last: its caller (auth.uid()), the event or
\* friendship id and the user id it was given, the error code the store
\* answered its statement with, and what it returned to the caller: "ok", a
\* status, or "error" when it threw or returned {error: message}
NoRet == [op |-> "none", caller |-> "none", id |-> 0, user |-> "none",
          code |-> "none", result |-> "none"]

Ret(op, caller, id, user, code, result) ==
    [op |-> op, caller |-> caller, id |-> id, user |-> user, code |-> code,
     result |-> result]

\* ------------------------------------------------------------ the store
EventRow(id) == CHOOSE e \in events : e.id = id
EventExists(id) == \E e \in events : e.id = id

\* rows of event_participants with the given key
RowsFor(t, e, u) == {r \in BagToSet(t) : r.event_id = e /\ r.user_id = u}

\* number of rows of event_participants with the given key
CountFor(t, e, u) ==
    LET rs == RowsFor(t, e, u)
        RECURSIVE Sum(_)
        Sum(S) == IF S = {} THEN 0
                  ELSE LET r == CHOOSE x \in S : TRUE
                       IN CopiesIn(r, t) + Sum(S \ {r})
    IN Sum(rs)

\* policy participants_insert_self: WITH CHECK (auth.uid() = user_id)
participants_insert_self(uid, row) == uid = row.user_id

\* an update policy that admits every caller
participants_update_anyone(uid, row) == TRUE

\* policy participants_update_creator: USING / WITH CHECK (the caller created
\* the row's event)
participants_update_creator(uid, row) ==
    \E e \in events : e.id = row.event_id /\ e.creator_id = uid

\* policy participants_delete_self: USING (auth.uid() = user_id)
participants_delete_self(uid, row) == uid = row.user_id

\* policy participants_delete_creator: USING (the caller created the event)
participants_delete_creator(uid, row) ==
    \E e \in events : e.id = row.event_id /\ e.creator_id = uid

\* policy events_insert_authenticated: WITH CHECK (auth.uid() = creator_id)
events_insert_authenticated(uid, row) == uid = row.creator_id

\* policy events_delete_own: USING (auth.uid() = creator_id)
events_delete_own(uid, row) == uid = row.creator_id

\* an event_participants table without the primary key
participants_no_pkey(t, row) == FALSE

\* primary key (event_id, user_id): does the proposed row collide with a row?
participants_pkey_conflict(t, row) == RowsFor(t, row.event_id, row.user_id) # {}

\* supabase .upsert(row, {onConflict: 'event_id,user_id'}) as the caller uid:
\* INSERT ... ON CONFLICT (event_id, user_id) DO UPDATE SET <the payload>.
\* The foreign key needs the event; the insert policy checks the proposed row;
\* on a conflict the update policy must admit the existing row, and a failed
\* policy raises 42501 (the update path is never skipped silently).
UpsertParticipant(t, uid, row) ==
    IF ~EventExists(row.event_id)
    THEN [error |-> "23503", table |-> t]
    ELSE IF ~participants_insert_self(uid, row)
    THEN [error |-> "42501", table |-> t]
    ELSE IF participants_pkey_conflict(t, row)
    THEN IF \A r \in RowsFor(t, row.event_id, row.user_id) :
                participants_update_creator(uid, r)
         THEN LET Set(r) == IF r.event_id = row.event_id /\ r.user_id = row.user_id
                            THEN row ELSE r
              IN [error |-> "none", table |-> BagOfAll(Set, t)]
         ELSE [error |-> "42501", table |-> t]
    ELSE [error |-> "none", table |-> t (+) SetToBag({row})]

\* an update that flips a row which already has the requested status
UpdateParticipant_flip(t, uid, e, u, status) ==
    LET Other(x) == IF x = "approved" THEN "rejected" ELSE "approved"
        Set(r) == IF r.event_id = e /\ r.user_id = u
                  THEN [r EXCEPT !.status = IF @ = status THEN Other(status) ELSE status]
                  ELSE r
    IN BagOfAll(Set, t)

\* .update({status}).eq('event_id', e).eq('user_id', u) as the caller uid: rows
\* the update policy does not admit are not seen by the statement (no error)
UpdateParticipant(t, uid, e, u, status) ==
    LET Set(r) == IF r.event_id = e /\ r.user_id = u
                     /\ participants_update_creator(uid, r)
                  THEN [r EXCEPT !.status = status] ELSE r
    IN BagOfAll(Set, t)

\* a delete that is not restricted to the user's row
DeleteParticipant_wholeEvent(t, uid, e, u) ==
    [r \in {x \in BagToSet(t) : x.event_id # e} |-> t[r]]

\* .delete().eq('event_id', e).eq('user_id', u) as the caller uid: the two
\* delete policies are permissive (either admits the row)
DeleteParticipant(t, uid, e, u) ==
    LET gone == {r \in BagToSet(t) :
                    /\ r.event_id = e /\ r.user_id = u
                    /\ (participants_delete_self(uid, r)
                        \/ participants_delete_creator(uid, r))}
    IN [r \in BagToSet(t) \ gone |-> t[r]]

\* What the store answers to a write whose payload names a column the table
\* does not have: PostgREST refuses it from its schema cache (PGRST204, "Could
\* not find the 'status' column of 'event_participants' in the schema cache",
\* the code createEvent handles for auto_accept), or, where it passes the
\* statement on, Postgres does (42703, 'column "status" of relation
\* "event_participants" does not exist').  A select of the missing column is
\* always answered by Postgres (42703).
MissingColumnCodes == {"PGRST204", "42703"}

\* error.message?.includes('status') && error.message?.includes('does not exist')
StatusDoesNotExist(code) == code = "42703"

\* references public.events(id) on delete cascade
CascadeParticipants(t, gone) ==
    [r \in {x \in BagToSet(t) : x.event_id \notin gone} |-> t[r]]

\* policy messages_insert_authenticated: WITH CHECK (auth.uid() = user_id)
messages_insert_authenticated(uid, row) == uid = row.user_id

\* messages.event_id without ON DELETE CASCADE and without its check
CascadeMessages_none(t, gone) == t

\* messages.event_id references public.events(id) on delete cascade
CascadeMessages(t, gone) == {m \in t : m.event_id \notin gone}

\* .insert(row) into messages as the caller uid: the foreign key needs the
\* event, the insert policy checks the proposed row
InsertMessage(t, uid, row) ==
    IF ~EventExists(row.event_id)
    THEN [error |-> "23503", table |-> t]
    ELSE IF ~messages_insert_authenticated(uid, row)
    THEN [error |-> "42501", table |-> t]
    ELSE [error |-> "none", table |-> t \cup {row}]

\* ------------------------------------------------------- pure functions
\* mapToLocalEvent: auto_accept: row.auto_accept !== false
mapToLocalEvent_autoAccept(row) ==
    [id |-> row.id, creator_id |-> row.creator_id, title |-> row.title,
     auto_accept |-> TRUE]

mapToLocalEvent(row) ==
    [id |-> row.id, creator_id |-> row.creator_id, title |-> row.title,
     auto_accept |-> (row.auto_accept # FALSE)]

\* getMyParticipantStatus(eventId, userId): the row's status, null without a
\* row; without the status column the select fails ('does not exist') and the
\* second select makes every row 'approved'
getMyParticipantStatus(e, u) ==
    IF RowsFor(participants, e, u) = {} THEN "null"
    ELSE IF statusColumn
    THEN (CHOOSE r \in RowsFor(participants, e, u) : TRUE).status
    ELSE "approved"

\* a listing that reports every row as approved
SelectWithStatus_allApproved(t, e) ==
    {[id |-> r.user_id, status |-> "approved"] :
        r \in {x \in BagToSet(t) : x.event_id = e}}

\* .select('status, profiles:user_id (...)').eq('event_id', e), filtered and
\* mapped: the rows of the event that have a profile (user_id references
\* profiles, so all have), each with its status; without the status column
\* the fallback select reports 'approved' for all
SelectWithStatus(t, e) ==
    {[id |-> r.user_id, status |-> IF statusColumn THEN r.status ELSE "approved"] :
        r \in {x \in BagToSet(t) : x.event_id = e /\ x.user_id \in Users}}

\* getEventParticipantsWithStatus(eventId)
getEventParticipantsWithStatus(e) == SelectWithStatus(participants, e)

\* ------------------------------------------------------------- actions
Init ==
    /\ events = {}
    /\ nextEventId = 1
    /\ participants = EmptyBag
    /\ statusColumn \in BOOLEAN
    /\ joinCalls = EmptyBag
    /\ messages = {}
    /\ nextMessageId = 1
    /\ friendships = {}
    /\ nextFriendshipId = 1
    /\ friendCalls = EmptyBag
    /\ resolutions = [i \in FriendshipIds |-> <<>>]
    /\ dmChats = {}
    /\ dmMessages = <<>>
    /\ dmProcs = {}
    /\ nextSendId = 1
    /\ replied = [n \in 1 .. MaxSends |-> <<>>]
    /\ returned = [n \in 1 .. MaxSends |-> <<>>]
    /\ clock = 0
    /\ screen = [messages |-> <<>>, resumed |-> {}]
    /\ profiles = [u \in Users |-> [is_ghost |-> FALSE, latitude |-> "null",
                                    longitude |-> "null", last_seen |-> <<>>]]
    /\ ghostMode = [u \in Users |-> FALSE]
    /\ locCalls = {}
    /\ nearby = [viewer |-> "null", users |-> {}]
    /\ ret = NoRet

\* the store as the schema creates it, event_participants.status included;
\* the start of the specifications that never touch that table
InitMigrated == Init /\ statusColumn

\* createEvent(input): one insert into events
CreateEvent(caller, creator, title, autoAccept) ==
    /\ nextEventId <= MaxEvents
    /\ LET payload == [id |-> nextEventId, creator_id |-> creator, title |-> title,
                       auto_accept |-> (autoAccept # "false")]
       IN IF events_insert_authenticated(caller, payload)
          THEN /\ events' = events \cup {payload}
               /\ nextEventId' = nextEventId + 1
               /\ ret' = Ret("createEvent", caller, payload.id, "none", "none", "ok")
          ELSE /\ UNCHANGED <<events, nextEventId>>
               /\ ret' = Ret("createEvent", caller, 0, "none", "42501", "error")
    /\ UNCHANGED <<participants, joinCalls, chat, notEvents>>

\* deleteEvent(eventId): delete from events where id = eventId; rows the
\* delete policy does not admit are not seen (no error)
DeleteEvent(caller, e) ==
    LET gone == {x \in events : x.id = e /\ events_delete_own(caller, x)}
    IN /\ events' = events \ gone
       /\ participants' = CascadeParticipants(participants, {x.id : x \in gone})
       /\ messages' = CascadeMessages(messages, {x.id : x \in gone})
       /\ ret' = Ret("deleteEvent", caller, e, "none", "none", "ok")
       /\ UNCHANGED <<nextEventId, joinCalls, nextMessageId, notEvents>>

\* addMessage(input): one insert into messages
AddMessage(caller, e, u) ==
    /\ nextMessageId <= MaxMessages
    /\ LET res == InsertMessage(messages, caller,
                     [id |-> nextMessageId, event_id |-> e, user_id |-> u])
       IN /\ messages' = res.table
          /\ nextMessageId' = IF res.error = "none" THEN nextMessageId + 1
                              ELSE nextMessageId
          /\ ret' = Ret("addMessage", caller, e, "none", res.error,
                        IF res.error = "none" THEN "ok" ELSE "error")
    /\ UNCHANGED <<events, nextEventId, participants, joinCalls, notEvents>>

\* joinEvent, first await: getEventById; throws 'Event not found' on null
JoinStart(caller, e, u) ==
    /\ BagCardinality(joinCalls) < MaxJoinCalls
    /\ IF EventExists(e)
       THEN LET event == mapToLocalEvent(EventRow(e))
                status == IF event.auto_accept THEN "approved" ELSE "pending"
                call == [caller |-> caller, event_id |-> e, user_id |-> u,
                         status |-> status, retry |-> FALSE]
            IN /\ joinCalls' = joinCalls (+) SetToBag({call})
               /\ ret' = Ret("getEventById", caller, e, "none", "none", "ok")
       ELSE /\ UNCHANGED joinCalls
            /\ ret' = Ret("joinEvent", caller, e, "none", "PGRST116", "error")
    /\ UNCHANGED <<events, nextEventId, participants, chat, notEvents>>

\* joinEvent, second await: the upsert with status; 23505 counts as success.
\* Without the status column the store answers with code; an answer that
\* matches 'status' ... 'does not exist' leads to the upsert without status.
JoinUpsert(call, code) ==
    /\ BagIn(call, joinCalls) /\ ~call.retry
    /\ IF statusColumn
       THEN LET res == UpsertParticipant(participants, call.caller,
                          [event_id |-> call.event_id, user_id |-> call.user_id,
                           status |-> call.status])
            IN /\ participants' = res.table
               /\ ret' = Ret("joinEvent", call.caller, call.event_id, "none", res.error,
                             IF res.error # "none" /\ res.error # "23505"
                             THEN "error" ELSE call.status)
               /\ joinCalls' = joinCalls (-) SetToBag({call})
       ELSE /\ UNCHANGED participants
            /\ IF StatusDoesNotExist(code)
               THEN /\ joinCalls' = (joinCalls (-) SetToBag({call}))
                                        (+) SetToBag({[call EXCEPT !.retry = TRUE]})
                    /\ ret' = Ret("upsert", call.caller, call.event_id, "none", code,
                                  "error")
               ELSE /\ joinCalls' = joinCalls (-) SetToBag({call})
                    /\ ret' = Ret("joinEvent", call.caller, call.event_id, "none", code,
                                  "error")
    /\ UNCHANGED <<events, nextEventId, chat, notEvents>>

\* joinEvent, third await: the upsert without status; returns 'approved'
JoinRetry(call) ==
    /\ BagIn(call, joinCalls) /\ call.retry
    /\ LET res == UpsertParticipant(participants, call.caller,
                     [event_id |-> call.event_id, user_id |-> call.user_id])
       IN /\ participants' = res.table
          /\ ret' = Ret("joinEvent", call.caller, call.event_id, "none", res.error,
                        IF res.error # "none" /\ res.error # "23505"
                        THEN "error" ELSE "approved")
    /\ joinCalls' = joinCalls (-) SetToBag({call})
    /\ UNCHANGED <<events, nextEventId, chat, notEvents>>

\* an updateParticipantStatus that takes every status
SettableByCreator_any(status) == TRUE

\* the statuses updateParticipantStatus accepts: the negation of
\* status !== 'approved' && status !== 'rejected'
SettableByCreator(status) == status = "approved" \/ status = "rejected"

\* updateParticipantStatus(eventId, participantUserId, status); without the
\* status column the store answers the update with code
UpdateParticipantStatus(caller, e, u, status, code) ==
    /\ IF ~SettableByCreator(status)
       THEN /\ UNCHANGED participants
            /\ ret' = Ret("updateParticipantStatus", caller, e, "none", "none", "error")
       ELSE IF ~statusColumn
       THEN /\ UNCHANGED participants
            /\ ret' = Ret("updateParticipantStatus", caller, e, "none", code,
                          IF StatusDoesNotExist(code) THEN "ok" ELSE "error")
       ELSE /\ participants' = UpdateParticipant(participants, caller, e, u, status)
            /\ ret' = Ret("updateParticipantStatus", caller, e, "none", "none", "ok")
    /\ UNCHANGED <<events, nextEventId, joinCalls, chat, notEvents>>

\* leaveEvent(eventId, userId)
LeaveEvent(caller, e, u) ==
    /\ participants' = DeleteParticipant(participants, caller, e, u)
    /\ ret' = Ret("leaveEvent", caller, e, "none", "none", "ok")
    /\ UNCHANGED <<events, nextEventId, joinCalls, chat, notEvents>>

\* The screens pass the signed-in user's own id as creator_id (create-event.tsx)
\* and as userId of joinEvent and addMessage (event/[id].tsx); leaveEvent and
\* updateParticipantStatus name any user.
Next ==
    \/ \E c \in Users, t \in Titles, a \in {"true", "false", "undefined"} :
          CreateEvent(c, c, t, a)
    \/ \E c \in Users, e \in EventIds : DeleteEvent(c, e)
    \/ \E c \in Users, e \in EventIds : JoinStart(c, e, c)
    \/ \E call \in BagToSet(joinCalls), code \in MissingColumnCodes :
          JoinUpsert(call, code)
    \/ \E call \in BagToSet(joinCalls) : JoinRetry(call)
    \/ \E c \in Users, e \in EventIds, u \in Users, s \in ParticipantStatus,
          code \in MissingColumnCodes :
          UpdateParticipantStatus(c, e, u, s, code)
    \/ \E c \in Users, e \in EventIds, u \in Users : LeaveEvent(c, e, u)
    \/ \E c \in Users, e \in EventIds : AddMessage(c, e, c)

Spec == Init /\ [][Next]_vars

\* ------------------------------------------------- the friendship graph
\* supabase.auth.getUser(): the signed-in user, or null without a session
NullUser == "null"
Sessions == Users \cup {NullUser}

\* a friendships table without the unique constraint
friendships_no_unique(t, row) == FALSE

\* unique(requester_id, receiver_id): does the proposed row collide with a row?
friendships_unique_conflict(t, row) ==
    \E f \in t : f.requester_id = row.requester_id /\ f.receiver_id = row.receiver_id

\* policy friendships_insert_requester: WITH CHECK (auth.uid() = requester_id)
friendships_insert_requester(uid, row) == uid = row.requester_id

\* policy friendships_update_receiver: USING / WITH CHECK (auth.uid() = receiver_id)
friendships_update_receiver(uid, row) == uid = row.receiver_id

\* policy friendships_select_own: USING (uid is the requester or the receiver)
friendships_select_own(uid, row) == uid = row.requester_id \/ uid = row.receiver_id

\* .insert({requester_id, receiver_id, status: 'pending'}) as the caller uid
InsertFriendship(t, uid, row) ==
    IF ~friendships_insert_requester(uid, row)
    THEN [error |-> "42501", table |-> t]
    ELSE IF friendships_unique_conflict(t, row)
    THEN [error |-> "23505", table |-> t]
    ELSE [error |-> "none", table |-> t \cup {row}]

\* an update that does not ask for the current status
ResolveMatches_noStatus(uid, me, id, f) ==
    /\ f.id = id
    /\ f.receiver_id = me
    /\ friendships_update_receiver(uid, f)

\* an update that only spares accepted rows
ResolveMatches_reopenRejected(uid, me, id, f) ==
    /\ f.id = id
    /\ f.receiver_id = me
    /\ f.status # "accepted"
    /\ friendships_update_receiver(uid, f)

\* the rows of .update({status}).eq('id', id).eq('receiver_id', me)
\* .eq('status', 'pending') as the caller uid (acceptRequest, declineRequest)
ResolveMatches(uid, me, id, f) ==
    /\ f.id = id
    /\ f.receiver_id = me
    /\ f.status = "pending"
    /\ friendships_update_receiver(uid, f)

\* a getMyFriends that always takes the requester as the friend
getMyFriends_alwaysRequester(me) ==
    IF me = NullUser THEN {}
    ELSE {[friendshipId |-> r.id, user |-> r.requester_id] :
            r \in {f \in friendships :
                      /\ friendships_select_own(me, f)
                      /\ f.status = "accepted"
                      /\ (f.requester_id = me \/ f.receiver_id = me)}}

\* getMyFriends as me: accepted rows with me on either side, each mapped to
\* the other party
getMyFriends(me) ==
    IF me = NullUser THEN {}
    ELSE {[friendshipId |-> r.id,
           user |-> IF r.requester_id = me THEN r.receiver_id ELSE r.requester_id] :
            r \in {f \in friendships :
                      /\ friendships_select_own(me, f)
                      /\ f.status = "accepted"
                      /\ (f.requester_id = me \/ f.receiver_id = me)}}

\* a sendFriendRequest without the self check
IsSelfRequest_never(me, target) == FALSE

\* targetUserId === me
IsSelfRequest(me, target) == target = me

\* sendFriendRequest(targetUserId) up to its insert: getCurrentUserId and the
\* two early returns
SendStart(me, target) ==
    /\ BagCardinality(friendCalls) < MaxFriendCalls
    /\ IF me = NullUser \/ IsSelfRequest(me, target)
       THEN /\ ret' = Ret("sendFriendRequest", me, 0, target, "none", "error")
            /\ UNCHANGED friendCalls
       ELSE /\ friendCalls' = friendCalls (+)
                  SetToBag({[op |-> "sendFriendRequest", me |-> me, id |-> 0,
                             user |-> target]})
            /\ ret' = Ret("getCurrentUserId", me, 0, target, "none", "ok")
    /\ UNCHANGED <<friendships, nextFriendshipId, resolutions, notFriends>>

\* sendFriendRequest: the insert; 23505 is returned as {error: null}
SendInsert(call) ==
    /\ BagIn(call, friendCalls) /\ call.op = "sendFriendRequest"
    /\ LET row == [id |-> nextFriendshipId, requester_id |-> call.me,
                   receiver_id |-> call.user, status |-> "pending"]
           res == InsertFriendship(friendships, call.me, row)
       IN /\ friendships' = res.table
          /\ res.error = "none" => nextFriendshipId <= MaxFriendships
          /\ nextFriendshipId' = IF res.error = "none" THEN nextFriendshipId + 1
                                 ELSE nextFriendshipId
          /\ ret' = Ret("sendFriendRequest", call.me, 0, call.user, res.error,
                        IF res.error = "none" \/ res.error = "23505"
                        THEN "ok" ELSE "error")
    /\ friendCalls' = friendCalls (-) SetToBag({call})
    /\ UNCHANGED <<resolutions, notFriends>>

\* acceptRequest / declineRequest up to the update: getCurrentUserId
ResolveStart(op, me, id) ==
    /\ BagCardinality(friendCalls) < MaxFriendCalls
    /\ IF me = NullUser
       THEN /\ ret' = Ret(op, me, id, "none", "none", "error")
            /\ UNCHANGED friendCalls
       ELSE /\ friendCalls' = friendCalls (+)
                  SetToBag({[op |-> op, me |-> me, id |-> id, user |-> "none"]})
            /\ ret' = Ret("getCurrentUserId", me, id, "none", "none", "ok")
    /\ UNCHANGED <<friendships, nextFriendshipId, resolutions, notFriends>>

\* acceptRequest / declineRequest: the conditional update; matching no row is
\* no error
ResolveUpdate(call) ==
    /\ BagIn(call, friendCalls) /\ call.op \in {"acceptRequest", "declineRequest"}
    /\ LET status == IF call.op = "acceptRequest" THEN "accepted" ELSE "rejected"
           hit == {f \in friendships : ResolveMatches(call.me, call.me, call.id, f)}
       IN /\ friendships' = (friendships \ hit)
                               \cup {[f EXCEPT !.status = status] : f \in hit}
          /\ resolutions' = [i \in FriendshipIds |->
                               IF \E f \in hit : f.id = i
                               THEN Append(resolutions[i], status)
                               ELSE resolutions[i]]
          /\ ret' = Ret(call.op, call.me, call.id, "none", "none", "ok")
    /\ friendCalls' = friendCalls (-) SetToBag({call})
    /\ UNCHANGED <<nextFriendshipId, notFriends>>

NextFriends ==
    \/ \E me \in Sessions, target \in Users : SendStart(me, target)
    \/ \E call \in BagToSet(friendCalls) : SendInsert(call)
    \/ \E op \in {"acceptRequest", "declineRequest"}, me \in Sessions,
          id \in FriendshipIds : ResolveStart(op, me, id)
    \/ \E call \in BagToSet(friendCalls) : ResolveUpdate(call)

SpecFriends == InitMigrated /\ [][NextFriends]_vars

\* .or(and(requester_id.eq.me, receiver_id.eq.other),
\*     and(requester_id.eq.other, receiver_id.eq.me))
RowsBetween(me, other) ==
    {f \in friendships :
        \/ f.requester_id = me /\ f.receiver_id = other
        \/ f.requester_id = other /\ f.receiver_id = me}

\* getFriendshipStatus: the values it can return; .limit(1) without an order
\* takes whichever matching row the store yields first
getFriendshipStatus(me, otherUserId) ==
    IF me = NullUser \/ RowsBetween(me, otherUserId) = {}
    THEN {"null"}
    ELSE {f.status : f \in RowsBetween(me, otherUserId)}

\* getFriendshipStatuses: the maps it can return; result[other] = row.status
\* in the order the store yields the rows, so the last row of a pair stays
getFriendshipStatuses(me, userIds) ==
    IF me = NullUser \/ userIds = {}
    THEN {<<>>}
    ELSE LET keys == {c \in userIds : RowsBetween(me, c) # {}}
         IN  {m \in [keys -> {"pending", "accepted", "rejected"}] :
                 \A c \in keys : \E f \in RowsBetween(me, c) : m[c] = f.status}

\* ------------------------------------------------------ direct messages
\* Every await of local-dms.ts (an AsyncStorage getItem or setItem) is one
\* step; a call holds what it has read until its next step.

\* the users a chat can be opened with (the chat id is the other user's id),
\* and the name the DM screen passes for each (route parameter name)
Peers == {"p1", "p2"}
PeerName(p) == IF p = "p1" THEN "Aisuluu" ELSE "Bob"

\* myUserId
Me == "me"

SendIds == 1 .. MaxSends

\* String.prototype.toLowerCase on the names in use
toLowerCase(name) ==
    CASE name = "Aisuluu" -> "aisuluu"
      [] name = "Bob" -> "bob"
      [] OTHER -> name

\* const demoNames = ['aisuluu', 'timur', 'jibek', 'max', 'aida']
demoNames == {"aisuluu", "timur", "jibek", "max", "aida"}

\* the length of each entry of BOT_REPLIES, and of the fallback pool
ReplyLengths ==
    [aisuluu |-> <<20, 25, 37, 11, 33>>, timur |-> <<16, 29, 28, 20, 27>>,
     jibek |-> <<10, 14, 28, 15, 36>>, max |-> <<15, 18, 26, 42, 30>>,
     aida |-> <<9, 36, 27, 22, 17>>, generic |-> <<7, 9, 10, 2, 17>>]

\* a message body: where the text comes from, which text it is, its length,
\* and whether it is only the head of that text followed by '...'
Body(pool, i, len) == [pool |-> pool, i |-> i, len |-> len, cut |-> FALSE]

\* the empty string
NoBody == Body("none", 0, 0)

\* what the user types in the model
DMBodies == {Body("user", 1, 5)}

\* ... and a text of more than 50 characters
LongBodies == {Body("user", 2, 60)}

\* the smaller of two numbers
Min(a, b) == IF a < b THEN a ELSE b

\* BOT_REPLIES[name], the fallback pool under "generic"; of each pool the
\* first MaxPick entries
BOT_REPLIES ==
    [name \in DOMAIN ReplyLengths |->
        {Body(name, i, ReplyLengths[name][i]) :
            i \in 1 .. Min(MaxPick, Len(ReplyLengths[name]))}]

\* a reply always taken from the fallback pool
getRandomReply_generic(userName) == BOT_REPLIES["generic"]

\* getRandomReply(userName): the bodies Math.random() can pick
getRandomReply(userName) ==
    IF toLowerCase(userName) \in demoNames
    THEN BOT_REPLIES[toLowerCase(userName)]
    ELSE BOT_REPLIES["generic"]

\* body.length > 50 ? body.substring(0, 50) + '...' : body
Preview_noCut(body) == body

Preview(body) ==
    IF body.len > 50 THEN [body EXCEPT !.len = 50 + 3, !.cut = TRUE] ELSE body

\* chats.find((c) => c.id === userId) / findIndex(...) !== -1
HasChat(chats, id) == \E c \in chats : c.id = id
ChatOf(chats, id) == CHOOSE c \in chats : c.id = id

\* chats[chatIndex].lastMessage = ...; chats[chatIndex].updatedAt = ...
WithLastMessage(chats, id, body, at) ==
    {IF c.id = id THEN [c EXCEPT !.lastMessage = Preview(body), !.updatedAt = at]
     ELSE c : c \in chats}

\* a call or timer callback between two awaits
Proc(op, n, chatId, userName, body, simulate, pc, msgs, chats, now) ==
    [op |-> op, n |-> n, chatId |-> chatId, userName |-> userName, body |-> body,
     simulate |-> simulate, pc |-> pc, msgs |-> msgs, chats |-> chats, now |-> now]

\* const msg: DMMessage = {id: randomId(), chatId, senderId: myUserId, body,
\* created_at: now, ...}
SentMessage(p) ==
    [id |-> <<"msg", p.n>>, chatId |-> p.chatId, senderId |-> Me, body |-> p.body,
     created_at |-> p.now]

\* const replyMsg: DMMessage = {id: randomId(), chatId, senderId: chatId,
\* body: replyBody, created_at: new Date(), ...}
ReplyMessage(p) ==
    [id |-> <<"reply", p.n>>, chatId |-> p.chatId, senderId |-> p.chatId,
     body |-> p.body, created_at |-> p.now]

Goto(p, pc) == (dmProcs \ {p}) \cup {[p EXCEPT !.pc = pc]}

\* getOrCreateDMChat, up to the read of the chat store
OpenRead(userId, userName) ==
    /\ Cardinality({p \in dmProcs : p.op = "open"}) < MaxOpens
    /\ dmProcs' = dmProcs \cup
          {Proc("open", 0, userId, userName, NoBody, FALSE, "write", <<>>, dmChats,
                clock)}
    /\ UNCHANGED <<dmChats, dmMessages, nextSendId, replied, returned, time, notDM>>

\* getOrCreateDMChat, the write: a new record with empty lastMessage, or the
\* record found with its display fields refreshed
OpenWrite(p) ==
    /\ p \in dmProcs /\ p.op = "open"
    /\ dmChats' =
          IF HasChat(p.chats, p.chatId)
          THEN {IF c.id = p.chatId THEN [c EXCEPT !.userName = p.userName] ELSE c :
                   c \in p.chats}
          ELSE p.chats \cup {[id |-> p.chatId, userName |-> p.userName,
                              lastMessage |-> NoBody, updatedAt |-> p.now]}
    /\ dmProcs' = dmProcs \ {p}
    /\ UNCHANGED <<dmMessages, nextSendId, replied, returned, time, notDM>>

\* sendDMMessage, up to the read of the message store
SendRead(chatId, body, simulateReply) ==
    /\ nextSendId <= MaxSends
    /\ dmProcs' = dmProcs \cup
          {Proc("send", nextSendId, chatId, "", body, simulateReply, "writeMessages",
                dmMessages, {}, clock)}
    /\ nextSendId' = nextSendId + 1
    /\ UNCHANGED <<dmChats, dmMessages, replied, returned, time, notDM>>

\* sendDMMessage: allMessages.push(msg); writeJson(DM_MESSAGES_KEY, allMessages)
SendWrite(p) ==
    /\ p \in dmProcs /\ p.op = "send" /\ p.pc = "writeMessages"
    /\ dmMessages' = Append(p.msgs, SentMessage(p))
    /\ dmProcs' = Goto(p, "readChats")
    /\ UNCHANGED <<dmChats, nextSendId, replied, returned, time, notDM>>

\* sendDMMessage: the read of the chat store; without the chat the call
\* returns here (no preview to write, no reply to schedule)
SendReadChats(p) ==
    /\ p \in dmProcs /\ p.op = "send" /\ p.pc = "readChats"
    /\ dmProcs' = IF HasChat(dmChats, p.chatId)
                  THEN (dmProcs \ {p}) \cup
                          {[p EXCEPT !.pc = "writeChats", !.chats = dmChats,
                                     !.userName = ChatOf(dmChats, p.chatId).userName]}
                  ELSE dmProcs \ {p}
    /\ returned' = IF HasChat(dmChats, p.chatId) THEN returned
                   ELSE [returned EXCEPT ![p.n] = <<SentMessage(p)>>]
    /\ UNCHANGED <<dmChats, dmMessages, nextSendId, replied, time, notDM>>

\* sendDMMessage: the write of the preview, then setTimeout for a demo name
\* when simulateReply is on, and the return
SendWriteChats(p) ==
    /\ p \in dmProcs /\ p.op = "send" /\ p.pc = "writeChats"
    /\ dmChats' = WithLastMessage(p.chats, p.chatId, p.body, p.now)
    /\ returned' = [returned EXCEPT ![p.n] = <<SentMessage(p)>>]
    /\ dmProcs' = IF p.simulate /\ toLowerCase(p.userName) \in demoNames
                  THEN (dmProcs \ {p}) \cup
                          {[p EXCEPT !.op = "reply", !.pc = "timer", !.msgs = <<>>,
                                     !.chats = {}, !.body = NoBody]}
                  ELSE dmProcs \ {p}
    /\ UNCHANGED <<dmMessages, nextSendId, replied, time, notDM>>

\* the timer fires: getRandomReply, then the read of the message store
ReplyRead(p, replyBody) ==
    /\ p \in dmProcs /\ p.op = "reply" /\ p.pc = "timer"
    /\ replyBody \in getRandomReply(p.userName)
    /\ dmProcs' = (dmProcs \ {p}) \cup
          {[p EXCEPT !.pc = "writeMessages", !.body = replyBody, !.msgs = dmMessages,
                     !.now = clock]}
    /\ UNCHANGED <<dmChats, dmMessages, nextSendId, replied, returned, time, notDM>>

\* the callback: messages.push(replyMsg); writeJson(DM_MESSAGES_KEY, messages)
ReplyWrite(p) ==
    /\ p \in dmProcs /\ p.op = "reply" /\ p.pc = "writeMessages"
    /\ dmMessages' = Append(p.msgs, ReplyMessage(p))
    /\ replied' = [replied EXCEPT ![p.n] = Append(@, <<"reply", p.n>>)]
    /\ dmProcs' = Goto(p, "readChats")
    /\ UNCHANGED <<dmChats, nextSendId, returned, time, notDM>>

\* the callback: the read of the chat store
ReplyReadChats(p) ==
    /\ p \in dmProcs /\ p.op = "reply" /\ p.pc = "readChats"
    /\ dmProcs' = IF HasChat(dmChats, p.chatId)
                  THEN (dmProcs \ {p}) \cup {[p EXCEPT !.pc = "writeChats",
                                                       !.chats = dmChats,
                                                       !.now = clock]}
                  ELSE dmProcs \ {p}
    /\ UNCHANGED <<dmChats, dmMessages, nextSendId, replied, returned, time, notDM>>

\* the callback: the write of the preview
ReplyWriteChats(p) ==
    /\ p \in dmProcs /\ p.op = "reply" /\ p.pc = "writeChats"
    /\ dmChats' = WithLastMessage(p.chats, p.chatId, p.body, p.now)
    /\ dmProcs' = dmProcs \ {p}
    /\ UNCHANGED <<dmMessages, nextSendId, replied, returned, time, notDM>>

\* the awaits of a sendDMMessage call that has started
SendStep == \E p \in dmProcs : SendWrite(p) \/ SendReadChats(p) \/ SendWriteChats(p)

\* the timer callback and its awaits
ReplyStep ==
    \E p \in dmProcs :
        \/ \E b \in UNION {BOT_REPLIES[k] : k \in DOMAIN BOT_REPLIES} : ReplyRead(p, b)
        \/ ReplyWrite(p) \/ ReplyReadChats(p) \/ ReplyWriteChats(p)

NextDM ==
    \/ \E u \in Peers : OpenRead(u, PeerName(u))
    \/ \E p \in dmProcs : OpenWrite(p)
    \/ \E c \in Peers, b \in DMBodies, sim \in BOOLEAN : SendRead(c, b, sim)
    \/ SendStep
    \/ ReplyStep

\* the event loop runs every continuation and every timer that is due
SpecDM == InitMigrated /\ [][NextDM]_vars /\ WF_vars(SendStep) /\ WF_vars(ReplyStep)

\* time passes between any two steps
Tick ==
    /\ clock < MaxClock
    /\ clock' = clock + 1
    /\ UNCHANGED <<dmChats, dmMessages, dmProcs, nextSendId, replied, returned, notDM>>

\* const chatId = params.id; const userName = params.name: the chat the screen
\* is open on
params_id == "p1"

params_name == PeerName(params_id)

\* if (!body || !chatId || sending) return
sending == \E p \in dmProcs : p.op = "send"

\* DMChatScreen.load, up to the read inside getOrCreateDMChat
load == OpenRead(params_id, params_name)

\* DMChatScreen.onSend, up to the first read inside sendDMMessage
onSend(body) ==
    /\ ~sending
    /\ SendRead(params_id, body, TRUE)

\* the store as the screen of one chat drives it
NextDMChat ==
    \/ load
    \/ \E p \in dmProcs : OpenWrite(p)
    \/ \E b \in DMBodies \cup LongBodies : onSend(b)
    \/ SendStep
    \/ ReplyStep
    \/ Tick

SpecDMChat == InitMigrated /\ [][NextDMChat]_vars

\* all.filter((m) => m.chatId === chatId).sort(by created_at): the results the
\* sort can give, messages with equal created_at in any order
getDMMessages(id) ==
    LET all == {i \in DOMAIN dmMessages : dmMessages[i].chatId = id}
        n == Cardinality(all)
    IN  {[k \in 1 .. n |-> dmMessages[f[k]]] :
            f \in {g \in [1 .. n -> all] :
                      /\ \A a, b \in 1 .. n : a # b => g[a] # g[b]
                      /\ \A a, b \in 1 .. n :
                            a < b => dmMessages[g[a]].created_at <=
                                     dmMessages[g[b]].created_at}}

\* an onSend whose sendDMMessage has returned and whose continuation has not
\* run yet; it runs before any timer or storage callback does
ResumePending == \E n \in SendIds : returned[n] # <<>> /\ n \notin screen.resumed

\* the interval callback, and the tail of load: const msgs = await
\* getDMMessages(chatId); setMessages(msgs)
Poll ==
    /\ ~ResumePending
    /\ \E msgs \in getDMMessages(params_id) :
          screen' = [screen EXCEPT !.messages = msgs]
    /\ UNCHANGED <<dmChats, dmMessages, dmProcs, nextSendId, replied, returned, time,
                   events, nextEventId, participants, statusColumn, joinCalls, messages,
                   nextMessageId, friendships, nextFriendshipId, friendCalls,
                   resolutions, presence, ret>>

\* onSend after the await: setMessages((prev) => [...prev, msg])
onSendResume(n) ==
    /\ returned[n] # <<>> /\ n \notin screen.resumed
    /\ screen' = [messages |-> Append(screen.messages, returned[n][1]),
                  resumed |-> screen.resumed \cup {n}]
    /\ UNCHANGED <<dmChats, dmMessages, dmProcs, nextSendId, replied, returned, time,
                   events, nextEventId, participants, statusColumn, joinCalls, messages,
                   nextMessageId, friendships, nextFriendshipId, friendCalls,
                   resolutions, presence, ret>>

\* the mounted screen with its interval running
NextDMScreen ==
    \/ load
    \/ \E p \in dmProcs : OpenWrite(p)
    \/ \E b \in DMBodies : ~ResumePending /\ onSend(b)
    \/ \E n \in SendIds : onSendResume(n)
    \/ SendStep
    \/ ReplyStep
    \/ Poll

SpecDMScreen == InitMigrated /\ [][NextDMScreen]_vars

\* ------------------------------------------------------------ map feed
\* loc.coords.latitude, loc.coords.longitude
Latitudes == {"42.87"}
Longitudes == {"74.59"}

\* 24 * 60 * 60 * 1000 ms, in ticks of the clock
Day == 2

\* a day passes
TickDay ==
    /\ clock + Day <= MaxClock + MaxDays * Day
    /\ clock' = clock + Day
    /\ UNCHANGED <<dmChats, dmMessages, dmProcs, nextSendId, replied, returned, notDM>>

\* supabase.from('profiles').update(updates).eq('id', user.id); a column that
\* updates does not name keeps its value
UpdateProfileRow(t, u, updates) ==
    [t EXCEPT ![u] = [c \in DOMAIN t[u] |->
                         IF c \in DOMAIN updates THEN updates[c] ELSE t[u][c]]]

\* updateProfile: the columns it sends for the fields that matter to the map;
\* updates.privacy is not sent
supabaseUpdates(updates) ==
    [c \in DOMAIN updates \cap {"is_ghost", "latitude", "longitude", "last_seen"} |->
        updates[c]]

updateProfile(u, updates) ==
    /\ profiles' = UpdateProfileRow(profiles, u, supabaseUpdates(updates))
    /\ UNCHANGED <<locCalls, nearby, dm, events, nextEventId, participants,
                   statusColumn, joinCalls, messages, nextMessageId, friendships,
                   nextFriendshipId, friendCalls, resolutions, ret>>

\* profile screen: toggleGhostMode(value)
toggleGhostMode(u, value) ==
    /\ ghostMode' = [ghostMode EXCEPT ![u] = value]
    /\ updateProfile(u, [privacy |-> [ghostMode |-> value]])

\* edit-profile screen: onSave with the privacy switch at value
onSave(u, value) ==
    /\ ghostMode' = [ghostMode EXCEPT ![u] = value]
    /\ updateProfile(u, IF value
                        THEN [privacy |-> [ghostMode |-> value], is_ghost |-> value,
                              latitude |-> "null", longitude |-> "null"]
                        ELSE [privacy |-> [ghostMode |-> value], is_ghost |-> value])

\* updateMyLocation up to the answer of getProfile(): isGhost and last_seen
updateMyLocationRead(u, lat, lng) ==
    /\ Cardinality(locCalls) < MaxLocCalls
    /\ locCalls' = locCalls \cup
          {[user |-> u, lat |-> lat, lng |-> lng, isGhost |-> profiles[u].is_ghost,
            last_seen |-> clock]}
    /\ UNCHANGED <<profiles, ghostMode, nearby, dm, events, nextEventId, participants,
                   statusColumn, joinCalls, messages, nextMessageId, friendships,
                   nextFriendshipId, friendCalls, resolutions, ret>>

\* updateMyLocation: the update
updateMyLocationWrite(c) ==
    /\ c \in locCalls
    /\ profiles' = UpdateProfileRow(profiles, c.user,
          [last_seen |-> <<c.last_seen>>,
           latitude |-> IF c.isGhost THEN "null" ELSE c.lat,
           longitude |-> IF c.isGhost THEN "null" ELSE c.lng])
    /\ locCalls' = locCalls \ {c}
    /\ UNCHANGED <<ghostMode, nearby, dm, events, nextEventId, participants,
                   statusColumn, joinCalls, messages, nextMessageId, friendships,
                   nextFriendshipId, friendCalls, resolutions, ret>>

getNearbyUsers_noWindow(t, myUserId, now) ==
    {u \in DOMAIN t : u # myUserId /\ ~t[u].is_ghost /\ t[u].latitude # "null"}

\* getNearbyUsers: .neq('id', myUserId).eq('is_ghost', false)
\* .not('latitude', 'is', null).not('longitude', 'is', null)
\* .gte('last_seen', since), since = now - 24 h
getNearbyUsers(t, myUserId, now) ==
    IF myUserId = "null" THEN {}
    ELSE {u \in DOMAIN t :
             /\ u # myUserId
             /\ t[u].is_ghost = FALSE
             /\ t[u].latitude # "null"
             /\ t[u].longitude # "null"
             /\ t[u].last_seen # <<>>
             /\ t[u].last_seen[1] >= now - Day}

\* map screen: setNearbyUsers(await getNearbyUsers(myId))
GetNearbyUsers(myUserId) ==
    /\ nearby' = [viewer |-> myUserId, users |-> getNearbyUsers(profiles, myUserId, clock)]
    /\ UNCHANGED <<profiles, ghostMode, locCalls, dm, events, nextEventId, participants,
                   statusColumn, joinCalls, messages, nextMessageId, friendships,
                   nextFriendshipId, friendCalls, resolutions, ret>>

NextPresence ==
    \/ \E u \in Users, value \in BOOLEAN : toggleGhostMode(u, value)
    \/ \E u \in Users, value \in BOOLEAN : onSave(u, value)
    \/ \E u \in Users, lat \in Latitudes, lng \in Longitudes :
          updateMyLocationRead(u, lat, lng)
    \/ \E c \in locCalls : updateMyLocationWrite(c)
    \/ \E v \in Users \cup {"null"} : GetNearbyUsers(v)
    \/ Tick
    \/ TickDay

SpecPresence == InitMigrated /\ [][NextPresence]_vars

\* ------------------------------------------------- participation claims
IsCreator(uid, e) == \E x \in events : x.id = e /\ x.creator_id = uid

\* the status of the (e, u) row, "absent" when there is none, "none" when
\* the row has no status column
StatusOf(t, e, u) ==
    IF RowsFor(t, e, u) = {} THEN "absent"
    ELSE LET r == CHOOSE x \in RowsFor(t, e, u) : TRUE
         IN IF "status" \in DOMAIN r THEN r.status ELSE "none"

\* C1: at most one Participant row for each (event, user) pair, whatever the
\* calls made; a joinEvent for a user who has a row adds no second row.
C1_OneRowPerPair ==
    \A e \in EventIds, u \in Users : CountFor(participants, e, u) <= 1

\* a joinEvent upsert has run for a user who already had a row (the store
\* refused it), and the pair still has its one row
C1_Witness ==
    /\ ret.op = "joinEvent" /\ ret.code = "42501" /\ ret.result = "error"
    /\ CountFor(participants, ret.id, ret.caller) = 1

\* C2 (as claimed): a joinEvent on an existing event returns approved for an
\* auto_accept event and pending otherwise, and the (E, u) row stores what it
\* returned (in a store that has the status column).
C2_JoinReturnsPolicyStatus ==
    (statusColumn /\ ret.op = "joinEvent" /\ EventExists(ret.id)) =>
        /\ ret.result = (IF mapToLocalEvent(EventRow(ret.id)).auto_accept
                         THEN "approved" ELSE "pending")
        /\ StatusOf(participants, ret.id, ret.caller) = ret.result

\* C3 (as claimed): a joinEvent of a user who is not the creator never reports
\* an error on an existing event, also as a second submission, and one row
\* exists afterwards (in a store that has the status column).
C3_DoubleJoinNoError ==
    (statusColumn /\ ret.op = "joinEvent" /\ EventExists(ret.id)
        /\ ~IsCreator(ret.caller, ret.id)) =>
        /\ ret.result # "error"
        /\ CountFor(participants, ret.id, ret.caller) = 1

\* C4 (as claimed): a row's status moves only absent -> pending | approved,
\* pending -> approved | rejected, and anything -> absent; approved and
\* rejected are never changed into another status (in a store that has the
\* status column).
C4_StatusMachine ==
    [][statusColumn => \A e \in EventIds, u \in Users :
          LET old == StatusOf(participants, e, u)
              new == StatusOf(participants', e, u)
          IN \/ new = old
             \/ new = "absent"
             \/ old = "absent" /\ new \in {"pending", "approved"}
             \/ old = "pending" /\ new \in {"approved", "rejected"}]_vars

\* C5: an updateParticipantStatus call by anyone but the creator of the event
\* leaves every Participant row as it was.
C5_OnlyCreatorUpdates ==
    [][(ret'.op = "updateParticipantStatus" /\ ~IsCreator(ret'.caller, ret'.id))
          => participants' = participants]_vars

\* a participant has just called updateParticipantStatus on an event of
\* someone else, where their own request is pending
C5_Witness ==
    /\ ret.op = "updateParticipantStatus" /\ ret.result = "ok"
    /\ EventExists(ret.id) /\ ~IsCreator(ret.caller, ret.id)
    /\ StatusOf(participants, ret.id, ret.caller) = "pending"

\* ---------------------------------------------------- friendship claims
FriendIds(me) == {x.user : x \in getMyFriends(me)}

RowsOfPair(a, b) == {f \in friendships : f.requester_id = a /\ f.receiver_id = b}

\* C6 (as claimed): never a pending row A -> B together with a pending row
\* B -> A.
C6_NoMutualRequests ==
    \A f \in friendships, g \in friendships :
        ~(/\ f.requester_id = g.receiver_id /\ f.receiver_id = g.requester_id
          /\ f.status = "pending" /\ g.status = "pending")

\* C7: of the acceptRequest / declineRequest calls made on one friendship, at
\* most one update changes the row, and the row keeps the status that update
\* wrote; a row no update has matched is pending.
C7_OneWinner ==
    \A f \in friendships :
        /\ Len(resolutions[f.id]) <= 1
        /\ resolutions[f.id] = <<>> => f.status = "pending"
        /\ resolutions[f.id] # <<>> => f.status = resolutions[f.id][1]

\* the receiver's declineRequest has completed on a row their acceptRequest
\* had won, and the row is still accepted
C7_Witness ==
    /\ ret.op = "declineRequest"
    /\ \E f \in friendships :
          /\ f.id = ret.id /\ f.receiver_id = ret.caller
          /\ f.status = "accepted" /\ resolutions[f.id] = <<"accepted">>

\* C8: once the receiver B has accepted A's request, in every later state
\* getMyFriends of A contains B, getMyFriends of B contains A, and no user is
\* in their own result.
C8_FriendsSymmetric ==
    /\ \A i \in FriendshipIds :
          (resolutions[i] # <<>> /\ resolutions[i][1] = "accepted") =>
              \E f \in friendships :
                  /\ f.id = i
                  /\ f.receiver_id \in FriendIds(f.requester_id)
                  /\ f.requester_id \in FriendIds(f.receiver_id)
    /\ \A u \in Users : u \notin FriendIds(u)

\* an accepted friendship, some call after the acceptRequest that made it
C8_Witness ==
    /\ ret.op # "acceptRequest"
    /\ \E f \in friendships : f.status = "accepted" /\ FriendIds(f.requester_id) # {}

\* C9: a sendFriendRequest of a signed-in user A to another user B returns no
\* error, also as a second submission, and leaves exactly one row A -> B,
\* which is pending unless B has resolved it.
C9_DoubleSendOneRow ==
    (ret.op = "sendFriendRequest" /\ ret.caller \in Users /\ ret.user # ret.caller) =>
        /\ ret.result = "ok"
        /\ Cardinality(RowsOfPair(ret.caller, ret.user)) = 1
        /\ \A f \in RowsOfPair(ret.caller, ret.user) :
              resolutions[f.id] = <<>> => f.status = "pending"

\* the second of two sendFriendRequest calls has hit the unique constraint
\* and returned no error; the row is pending
C9_Witness ==
    /\ ret.op = "sendFriendRequest" /\ ret.code = "23505" /\ ret.result = "ok"
    /\ \E f \in RowsOfPair(ret.caller, ret.user) : f.status = "pending"

\* C10: a friendship row changes only from pending, and only in a step of
\* acceptRequest or declineRequest called by its receiver on its id; no row
\* disappears.
C10_OnlyReceiverResolves ==
    [][\A f \in friendships :
          \E g \in friendships' :
              /\ g.id = f.id
              /\ g.requester_id = f.requester_id /\ g.receiver_id = f.receiver_id
              /\ g.status # f.status =>
                    /\ f.status = "pending"
                    /\ ret'.op \in {"acceptRequest", "declineRequest"}
                    /\ ret'.caller = f.receiver_id /\ ret'.id = f.id]_vars

\* the requester has called acceptRequest on their own pending request, which
\* stays pending
C10_Witness ==
    /\ ret.op = "acceptRequest"
    /\ \E f \in friendships :
          /\ f.id = ret.id /\ f.requester_id = ret.caller /\ f.status = "pending"

\* ------------------------------------------- event lifecycle and chat claims
\* C11: every Participant row and every Message row names an event that
\* exists; the creator's deleteEvent removes the event with all its rows in
\* one step, and a joinEvent or addMessage that reaches the store after it
\* adds no row.
C11_NoOrphanRows ==
    /\ \A r \in BagToSet(participants) : EventExists(r.event_id)
    /\ \A m \in messages : EventExists(m.event_id)
    /\ (ret.op = "deleteEvent" /\ ~EventExists(ret.id)) =>
          /\ \A u \in Users : CountFor(participants, ret.id, u) = 0
          /\ \A m \in messages : m.event_id # ret.id

\* the upsert of a joinEvent that had read the event before the creator
\* deleted it has been refused; the event had a message, which is gone
C11_Witness ==
    /\ ret.op = "joinEvent" /\ ret.code = "23503"
    /\ nextMessageId > 1 /\ messages = {} /\ participants = EmptyBag

\* C12 (as claimed): a getEventParticipantsWithStatus(E) issued after
\* joinEvent(E, u) has returned, with anything but a leaveEvent or deleteEvent
\* in between, lists u with the status joinEvent returned.
C12_ListedUnlessLeftOrDeleted ==
    [][(/\ ret.op = "joinEvent" /\ ret.result # "error"
        /\ ret'.op \notin {"leaveEvent", "deleteEvent"})
          => [id |-> ret.caller, status |-> ret.result]
                \in SelectWithStatus(participants', ret.id)]_vars

\* C12: right after joinEvent(E, u) has returned a status,
\* getEventParticipantsWithStatus(E) lists u with exactly that status, and
\* still does after one more step that is no leaveEvent, deleteEvent or
\* updateParticipantStatus.
C12_ListedWithReturnedStatus ==
    [][/\ (ret'.op = "joinEvent" /\ ret'.result # "error")
            => /\ [id |-> ret'.caller, status |-> ret'.result]
                     \in SelectWithStatus(participants', ret'.id)
               /\ \A p \in SelectWithStatus(participants', ret'.id) :
                     p.id = ret'.caller => p.status = ret'.result
       /\ (/\ ret.op = "joinEvent" /\ ret.result # "error"
           /\ ret'.op \notin {"leaveEvent", "deleteEvent", "updateParticipantStatus"})
            => [id |-> ret.caller, status |-> ret.result]
                  \in SelectWithStatus(participants', ret.id)]_vars

\* a joinEvent on an event that needs approval has returned pending, and the
\* listing of the event has the caller as pending
C12_Witness ==
    /\ ret.op = "joinEvent" /\ ret.result = "pending"
    /\ [id |-> ret.caller, status |-> "pending"]
          \in getEventParticipantsWithStatus(ret.id)

\* C13: an updateParticipantStatus(E, u, s) by the creator of E that follows
\* one which left the (E, u) row with status s (or found no such row) returns
\* without error and changes no Participant row: none added, none removed,
\* the row still s (in a store that has the status column).
C13_UpdateIdempotent ==
    [][\A c \in Users, e \in EventIds, u \in Users, s \in {"approved", "rejected"},
         code \in MissingColumnCodes :
          (/\ statusColumn /\ IsCreator(c, e)
           /\ ret.op = "updateParticipantStatus" /\ ret.caller = c /\ ret.id = e
           /\ ret.result = "ok"
           /\ StatusOf(participants, e, u) \in {s, "absent"}
           /\ UpdateParticipantStatus(c, e, u, s, code))
             => /\ ret'.result = "ok"
                /\ participants' = participants
                /\ StatusOf(participants', e, u) \in {s, "absent"}]_vars

\* the creator has called updateParticipantStatus without error and a row of
\* the event is rejected, the status only that call writes; repeating the
\* call from here is the step the claim is about
C13_Witness ==
    /\ statusColumn
    /\ ret.op = "updateParticipantStatus" /\ ret.result = "ok"
    /\ IsCreator(ret.caller, ret.id)
    /\ \E u \in Users : StatusOf(participants, ret.id, u) = "rejected"

\* C14 (as claimed): an updateParticipantStatus or deleteEvent by a user who
\* is not the creator of the (existing) event reports an error to its
\* caller; it never returns normally with the rows left untouched.
C14_NonCreatorGetsError ==
    (/\ ret.op \in {"updateParticipantStatus", "deleteEvent"}
     /\ EventExists(ret.id) /\ ~IsCreator(ret.caller, ret.id))
        => ret.result = "error"

\* C15 (as claimed): in a store without the status column no participant
\* operation fails over the missing column: joinEvent creates the row and
\* returns approved, getMyParticipantStatus returns approved for a row and
\* null for none, getEventParticipantsWithStatus reports everyone approved,
\* and updateParticipantStatus returns normally and changes nothing.
C15_MissingStatusTolerated ==
    [][~statusColumn =>
          /\ (/\ ret'.op \in {"joinEvent", "updateParticipantStatus"}
              /\ ret'.code \in MissingColumnCodes) => ret'.result # "error"
          /\ (ret'.op = "joinEvent" /\ ret'.code = "none")
                => /\ ret'.result = "approved"
                   /\ CountFor(participants', ret'.id, ret'.caller) = 1
          /\ ret'.op = "updateParticipantStatus" => participants' = participants
          /\ \A e \in EventIds, u \in Users :
                getMyParticipantStatus(e, u)' =
                    IF RowsFor(participants', e, u) = {} THEN "null" ELSE "approved"
          /\ \A e \in EventIds :
                \A p \in SelectWithStatus(participants', e) : p.status = "approved"]_vars

\* C17: an updateParticipantStatus with status pending fails with an error
\* before any statement is sent to the store; no Participant row changes.
C17_PendingRefused ==
    [][\A c \in Users, e \in EventIds, u \in Users, code \in MissingColumnCodes :
          UpdateParticipantStatus(c, e, u, "pending", code)
            => /\ ret'.result = "error" /\ ret'.code = "none"
               /\ participants' = participants]_vars

\* the creator's updateParticipantStatus has thrown without a statement sent
\* (in a store that has the status column only the pending argument does
\* that), and the approved row of their event is still approved
C17_Witness ==
    /\ statusColumn
    /\ ret.op = "updateParticipantStatus" /\ ret.result = "error" /\ ret.code = "none"
    /\ IsCreator(ret.caller, ret.id)
    /\ \E u \in Users : StatusOf(participants, ret.id, u) = "approved"

\* C18: leaveEvent(E, u) returns without error whether or not the (E, u) row
\* exists; called by u (or by the creator of E) it leaves no (E, u) row; and
\* whoever calls it, every other Participant row, every Event and every
\* Message is what it was.
C18_LeaveFrame ==
    [][\A c \in Users, e \in EventIds, u \in Users :
          LeaveEvent(c, e, u)
            => /\ ret'.result = "ok"
               /\ (c = u \/ IsCreator(c, e)) => CountFor(participants', e, u) = 0
               /\ CountFor(participants', e, u) <= CountFor(participants, e, u)
               /\ \A e2 \in EventIds, u2 \in Users :
                     <<e2, u2>> # <<e, u>> =>
                        /\ RowsFor(participants', e2, u2) = RowsFor(participants, e2, u2)
                        /\ CountFor(participants', e2, u2) = CountFor(participants, e2, u2)
               /\ events' = events /\ messages' = messages]_vars

\* a leaveEvent has returned: the caller has no row in the event, the other
\* user's row and the event's message are there
C18_Witness ==
    /\ ret.op = "leaveEvent" /\ ret.result = "ok"
    /\ CountFor(participants, ret.id, ret.caller) = 0
    /\ \E u \in Users : u # ret.caller /\ CountFor(participants, ret.id, u) = 1
    /\ \E m \in messages : m.event_id = ret.id

\* C19 (as claimed): a createEvent whose title is empty is rejected with an
\* error and creates no Event row.
C19_EmptyTitleRejected ==
    /\ \A x \in events : x.title # ""
    /\ (ret.op = "createEvent" /\ ret.result = "ok") =>
          \A x \in events : x.id = ret.id => x.title # ""

\* ------------------------------------------------ more friendship claims
\* C16: a sendFriendRequest of a signed-in user whose target is the user
\* themselves returns an error before any statement is sent, and the
\* friendship rows are what they were.
C16_SelfRequestRefused ==
    [][(/\ ret'.op = "sendFriendRequest" /\ ret'.caller \in Users
        /\ ret'.user = ret'.caller)
          => /\ ret'.result = "error" /\ ret'.code = "none"
             /\ friendships' = friendships]_vars

\* a signed-in user has sent a request to themselves and got the error; no
\* row names them on both sides
C16_Witness ==
    /\ ret.op = "sendFriendRequest" /\ ret.caller \in Users
    /\ ret.user = ret.caller /\ ret.result = "error"
    /\ \A f \in friendships : f.requester_id # f.receiver_id

\* -------------------------------------------------- direct message claims
\* does the chat record that sendDMMessage finds carry a demo name?
IsDemoChat(chats, id) ==
    HasChat(chats, id) /\ toLowerCase(ChatOf(chats, id).userName) \in demoNames

\* the messages of the store that the user did not send
RepliesIn(msgs) == {i \in 1 .. Len(msgs) : msgs[i].senderId # Me}

\* C20: a sendDMMessage call with simulateReply on that finds its chat, with
\* a demo name, is followed (the call itself returns before) by one reply for
\* it, written to the message store with senderId the counterpart's id and a
\* body of that name's pool; a call for another name or with simulateReply
\* off never gets a reply; no call gets two.
C20_DemoReply ==
    /\ \A n \in SendIds :
          (\E p \in dmProcs : /\ p.n = n /\ p.op = "send" /\ p.pc = "writeChats"
                               /\ p.simulate /\ IsDemoChat(p.chats, p.chatId))
             ~> (Len(replied[n]) = 1)
    /\ [](\A n \in SendIds : Len(replied[n]) <= 1)
    /\ [](\A p \in dmProcs :
            p.op = "reply" => p.simulate /\ toLowerCase(p.userName) \in demoNames)
    /\ [][\A i \in RepliesIn(dmMessages') \ RepliesIn(dmMessages) :
            \E p \in dmProcs :
                /\ p.op = "reply" /\ ReplyWrite(p)
                /\ dmMessages'[i].chatId = p.chatId
                /\ dmMessages'[i].senderId = p.chatId
                /\ dmMessages'[i].body \in BOT_REPLIES[toLowerCase(p.userName)]]_vars

\* the reply to the first sendDMMessage call is in the message store, from
\* the counterpart, while the call for the other chat got none
C20_Witness ==
    /\ Len(replied[1]) = 1
    /\ \E i \in RepliesIn(dmMessages) :
          dmMessages[i].id = <<"reply", 1>> /\ dmMessages[i].senderId = "p1"
    /\ nextSendId > 2 /\ replied[2] = <<>> /\ dmProcs = {}

\* a text cut to its first 50 characters followed by '...'
Cut(body) == [pool |-> body.pool, i |-> body.i, len |-> 53, cut |-> TRUE]

\* the call of p ran from its first read up to here with no other writer in
\* between
RanAlone(p) ==
    /\ p.chats = dmChats
    /\ dmMessages = Append(p.msgs, SentMessage(p))

\* C21: a sendDMMessage call on an existing chat that no other writer
\* interleaves with adds exactly one message, which carries the given chatId,
\* senderId and body; it sets the chat's lastMessage to the body when the body
\* has at most 50 characters and to its first 50 characters plus '...'
\* otherwise, sets the chat's updatedAt to the message's created_at, and
\* returns the very message it stored.
C21_SendStoresAndPreviews ==
    [][\A p \in dmProcs :
          /\ (SendWrite(p) /\ p.msgs = dmMessages) =>
                /\ Len(dmMessages') = Len(dmMessages) + 1
                /\ SubSeq(dmMessages', 1, Len(dmMessages)) = dmMessages
                /\ dmMessages'[Len(dmMessages')].chatId = p.chatId
                /\ dmMessages'[Len(dmMessages')].senderId = Me
                /\ dmMessages'[Len(dmMessages')].body = p.body
          /\ (SendWriteChats(p) /\ RanAlone(p)) =>
                /\ returned'[p.n] = <<dmMessages[Len(dmMessages)]>>
                /\ dmMessages' = dmMessages
                /\ ChatOf(dmChats', p.chatId).lastMessage =
                      IF p.body.len <= 50 THEN p.body ELSE Cut(p.body)
                /\ ChatOf(dmChats', p.chatId).updatedAt = returned'[p.n][1].created_at
                /\ \A c \in dmChats : c.id # p.chatId => c \in dmChats'
                /\ Cardinality(dmChats') = Cardinality(dmChats)]_vars

C21_Witness ==
    \E n \in SendIds :
        /\ returned[n] # <<>>
        /\ returned[n][1].body.len > 50
        /\ HasChat(dmChats, params_id)
        /\ ChatOf(dmChats, params_id).lastMessage = Cut(returned[n][1].body)
        /\ ChatOf(dmChats, params_id).updatedAt = 1

\* the stored messages of a chat
MessagesOf(id) == {dmMessages[i] : i \in {j \in DOMAIN dmMessages : dmMessages[j].chatId = id}}

\* a sendDMMessage call or a simulated reply is in progress for the chat
InProgress(id) == \E p \in dmProcs : p.op \in {"send", "reply"} /\ p.chatId = id

\* C22: whenever no sendDMMessage call and no simulated reply is in progress
\* for a chat, the chat's lastMessage and updatedAt are the preview and the
\* created_at of a stored message of that chat with the greatest created_at.
C22_PreviewIsLatestMessage ==
    \A c \in dmChats :
        (~InProgress(c.id) /\ MessagesOf(c.id) # {}) =>
            \E m \in MessagesOf(c.id) :
                /\ \A o \in MessagesOf(c.id) : o.created_at <= m.created_at
                /\ c.lastMessage = Preview(m.body)
                /\ c.updatedAt = m.created_at

\* C23: the chat store never holds two records with the same counterpart id;
\* a getOrCreateDMChat call whose write finds no record for its counterpart
\* leaves one with an empty lastMessage, and one whose write finds a record
\* leaves that record's lastMessage and updatedAt as they were.
C23_GetOrCreateKeepsRecord ==
    [][/\ \A c, d \in dmChats' : c.id = d.id => c = d
       /\ \A p \in dmProcs :
             OpenWrite(p) =>
                 /\ HasChat(dmChats', p.chatId)
                 /\ IF HasChat(dmChats, p.chatId)
                    THEN /\ ChatOf(dmChats', p.chatId).lastMessage =
                               ChatOf(dmChats, p.chatId).lastMessage
                         /\ ChatOf(dmChats', p.chatId).updatedAt =
                               ChatOf(dmChats, p.chatId).updatedAt
                    ELSE ChatOf(dmChats', p.chatId).lastMessage = NoBody]_vars

\* the ids of the messages in the store
StoredIds == {dmMessages[i].id : i \in DOMAIN dmMessages}

\* C28: every message that a sendDMMessage call has returned and every
\* simulated reply that has been written is in the message store.
C28_NoMessageLost ==
    \A n \in SendIds :
        /\ \A i \in DOMAIN returned[n] : returned[n][i].id \in StoredIds
        /\ \A i \in DOMAIN replied[n] : replied[n][i] \in StoredIds

\* C24: a poll changes neither the chat store nor the message store, and the
\* screen's message list never holds the same message id twice.
C24_PollNeverDuplicates ==
    [][/\ Poll => UNCHANGED <<dmChats, dmMessages>>
       /\ \A i, j \in DOMAIN screen'.messages :
             i # j => screen'.messages[i].id # screen'.messages[j].id]_vars

\* C25: while the ghost mode a user has last chosen (profile-screen toggle or
\* edit-profile save) is on, the stored latitude and longitude of that user
\* are null and no getNearbyUsers call returns that user.
C25_GhostHidesLocation ==
    \A u \in Users :
        ghostMode[u] =>
            /\ profiles[u].latitude = "null"
            /\ profiles[u].longitude = "null"
            /\ \A v \in Users : u \notin getNearbyUsers(profiles, v, clock)

\* C26: getNearbyUsers(viewer) returns exactly the profiles other than the
\* viewer that have is_ghost false, latitude and longitude set and a
\* last_seen at most 24 hours before the call; for a null viewer it returns
\* the empty list.
C26_NearbyExactly ==
    [][\A v \in Users \cup {"null"} :
          GetNearbyUsers(v) =>
              /\ nearby'.viewer = v
              /\ v = "null" => nearby'.users = {}
              /\ v # "null" =>
                    \A u \in Users :
                        u \in nearby'.users <=>
                            /\ u # v
                            /\ ~profiles[u].is_ghost
                            /\ profiles[u].latitude # "null"
                            /\ profiles[u].longitude # "null"
                            /\ profiles[u].last_seen # <<>>
                            /\ clock - profiles[u].last_seen[1] <= Day]_vars

C26_Witness ==
    /\ nearby.viewer = "u1" /\ nearby.users = {"u2"}
    /\ clock > Day
    /\ "u2" \notin getNearbyUsers(profiles, "u1", clock)
    /\ ~profiles["u2"].is_ghost /\ profiles["u2"].latitude # "null"

\* C27: the map getFriendshipStatuses returns has as keys exactly the
\* candidates that have a friendship row with the caller in either direction,
\* and under each key the status getFriendshipStatus returns for that
\* candidate in the same state, whatever the order of the rows.
C27_StatusesAgree ==
    \A me \in Users, userIds \in SUBSET Users :
        \A m \in getFriendshipStatuses(me, userIds) :
            /\ DOMAIN m = {c \in userIds : RowsBetween(me, c) # {}}
            /\ \A c \in DOMAIN m : getFriendshipStatus(me, c) = {m[c]}

\* C29: on a store with the status column, in an event created with
\* auto_accept = false a user's status becomes approved only in a step that is
\* the creator's updateParticipantStatus(E, u, 'approved'); no joinEvent or
\* leaveEvent makes it approved.
C29_ApprovedOnlyByCreator ==
    [][statusColumn =>
          \A x \in events, u \in Users :
              (/\ x.auto_accept = FALSE
               /\ StatusOf(participants, x.id, u) # "approved"
               /\ StatusOf(participants', x.id, u) = "approved") =>
                  \E code \in MissingColumnCodes :
                      UpdateParticipantStatus(x.creator_id, x.id, u, "approved", code)]_vars

C29_Witness ==
    /\ statusColumn
    /\ ret.op = "updateParticipantStatus"
    /\ \E x \in events, u \in Users :
          /\ x.auto_accept = FALSE /\ u # x.creator_id
          /\ StatusOf(participants, x.id, u) = "approved"

====
